---- MODULE Spec2Model ----
(***************************************************************************)
(* Model of subconscious/column.py: the Column descriptor and its          *)
(* validation, the Integer column with its auto-increment request, and     *)
(* the DecimalColumn store encoding.                                       *)
(*                                                                         *)
(* Python values are modelled by name: the strings "None", "False",        *)
(* "True", "1" stand for None, False, True and the int 1 (truthy, but not  *)
(* the object True).  Decimals are sign / coefficient / exponent triples   *)
(* and the results of Decimal arithmetic are rounded to the context        *)
(* precision, as the decimal module does.                                  *)
(***************************************************************************)
EXTENDS Integers, Sequences, FiniteSets, TLC

VARIABLES call, outcome, field,
          dplaces, dvalue, redis_value, python_value, dpc,
          counter, task, requests, ledger, returned, raised, issued,
          budget

colvars == <<call, outcome, field>>
decvars == <<dplaces, dvalue, redis_value, python_value, dpc>>
cntvars == <<counter, task, requests, ledger, returned, raised, issued,
            budget>>
vars == <<call, outcome, field,
          dplaces, dvalue, redis_value, python_value, dpc,
          counter, task, requests, ledger, returned, raised, issued,
          budget>>

(***************************************************************************)
(* Bounds                                                                  *)
(***************************************************************************)
\* context precision of the decimal arithmetic, in significant digits (the
\* default context has 28; the model runs the same arithmetic with fewer)
Prec == 2
\* largest decimal_places tried
MaxScale == 2
\* most fractional digits of an input value
MaxFrac == 3
\* largest positive exponent of an input value
MaxExp == 1
\* number of concurrent callers of auto_generate
NumCallers == 2
\* total number of auto_generate calls, against a db that may fail
MaxCalls == 2
\* total number of auto_generate calls, against a db that does not fail
MaxServedCalls == 3

(***************************************************************************)
(* Column.__init__                                                         *)
(***************************************************************************)
\* decimal_places when DecimalColumn is given none
DefaultDecimalPlaces == 10

\* bool(x) of an argument value
Truthy(x) == x \in {"True", "1"}

\* x is True
IsTrue(x) == x = "True"

\* the types Column accepts
SupportedTypes == {"str", "int", "Decimal"}

\* the types tried as the type argument
TypeArgs == SupportedTypes \cup {"float"}

\* the values tried for primary_key, composite_key, index, required
FlagArgs == {"None", "False", "True", "1"}

\* the values tried for sort
SortArgs == {"None", "True"}

\* the values tried for enum: None, Enum classes (three members, no member,
\* one alias), and values that are not Enum classes (a non-empty list, an
\* empty list, the ints 1 and 0); truthy is bool(x)
NoEnum == [kind |-> "None", truthy |-> FALSE, members |-> <<>>]

EnumArgs ==
    { NoEnum,
      [kind |-> "EnumMeta", truthy |-> TRUE, members |-> <<"a", "b", "c">>],
      [kind |-> "EnumMeta", truthy |-> TRUE, members |-> <<>>],
      [kind |-> "EnumMeta", truthy |-> TRUE, members |-> <<"r", "g", "r">>],
      [kind |-> "list", truthy |-> TRUE, members |-> <<"a">>],
      [kind |-> "list", truthy |-> FALSE, members |-> <<>>],
      [kind |-> "int", truthy |-> TRUE, members |-> <<>>],
      [kind |-> "int", truthy |-> FALSE, members |-> <<>>] }

\* set([x.value for x in enum])
EnumValues(enum) == { enum.members[i] : i \in DOMAIN enum.members }

\* the object no construction has produced
NoField ==
    [cls |-> "none", field_type |-> "none", primary |-> FALSE,
     composite |-> FALSE, sorted |-> FALSE, indexed |-> FALSE,
     required |-> FALSE, enum_choices |-> {}, auto_increment |-> "None",
     decimal_places |-> 0]

\* variant: Decimal is missing from the accepted types
BadFieldTypeNoDecimal(type) == type \notin {"str", "int"}

\* type not in (str, int, Decimal)
BadFieldType(type) == type \notin SupportedTypes

\* variant: only the object True counts in the conflict test
KeyConflictIsTrue(primary_key, composite_key) ==
    IsTrue(primary_key) /\ IsTrue(composite_key)

\* primary_key and composite_key
KeyConflict(primary_key, composite_key) ==
    Truthy(primary_key) /\ Truthy(composite_key)

\* variant: composite does not imply indexed
IndexedExplicitOnly(index, composite) == IsTrue(index)

\* self.indexed = (index is True) or self.composite
Indexed(index, composite) == IsTrue(index) \/ composite

\* self.required = required is True or self.primary or self.composite
Required(required, primary, composite) ==
    IsTrue(required) \/ primary \/ composite

\* if enum: the restriction counts as supplied when it is truthy
EnumSupplied(enum) == enum.truthy

\* isinstance(enum, EnumMeta)
IsEnumMeta(enum) == enum.kind = "EnumMeta"

\* Column.__init__: the exception raised (by its message) or "ok", and the
\* attributes set on self
ColumnInit(type, primary_key, composite_key, index, required, enum, sort) ==
    LET primary == IsTrue(primary_key)
        composite == IsTrue(composite_key)
        self == [cls |-> "Column", field_type |-> type,
                 primary |-> primary, composite |-> composite,
                 sorted |-> IsTrue(sort),
                 indexed |-> Indexed(index, composite),
                 required |-> Required(required, primary, composite),
                 enum_choices |-> {}, auto_increment |-> "None",
                 decimal_places |-> 0]
    IN  IF BadFieldType(type)
        THEN [err |-> "Bad Field Type", self |-> NoField]
        ELSE IF KeyConflict(primary_key, composite_key)
        THEN [err |-> "primary_key or composite_key, but not both",
              self |-> NoField]
        ELSE IF EnumSupplied(enum)
        THEN IF ~IsEnumMeta(enum)
             THEN [err |-> "is not an instance of EnumMeta", self |-> NoField]
             ELSE [err |-> "ok",
                   self |-> [self EXCEPT !.enum_choices = EnumValues(enum)]]
        ELSE [err |-> "ok", self |-> self]

\* the arguments of one constructor call; for DecimalColumn, dp_given says
\* whether decimal_places is passed, extra counts the further positional
\* arguments and kw says whether the flags are passed by keyword
Calls ==
    [ctor : {"Column"}, type : TypeArgs, primary_key : FlagArgs,
     composite_key : FlagArgs, index : FlagArgs, required : FlagArgs,
     enum : EnumArgs, sort : SortArgs, auto_increment : {"None"},
     dp_given : {FALSE}, decimal_places : {0}, extra : {0}, kw : {FALSE}]
    \cup
    [ctor : {"Integer"}, type : {"int"}, primary_key : FlagArgs,
     composite_key : FlagArgs, index : FlagArgs, required : FlagArgs,
     enum : EnumArgs, sort : SortArgs, auto_increment : {"False", "True"},
     dp_given : {FALSE}, decimal_places : {0}, extra : {0}, kw : {FALSE}]
    \cup
    [ctor : {"DecimalColumn"}, type : {"Decimal"},
     primary_key : {"None", "True"}, composite_key : {"None", "True"},
     index : {"None", "True"}, required : {"None", "True"},
     enum : {NoEnum}, sort : {"None"}, auto_increment : {"None"},
     dp_given : BOOLEAN, decimal_places : 0..MaxScale, extra : {0, 1},
     kw : BOOLEAN]

\* Column(type, primary_key=..., ...)
ColumnNew ==
    /\ call.ctor = "Column"
    /\ outcome = "pending"
    /\ LET r == ColumnInit(call.type, call.primary_key, call.composite_key,
                           call.index, call.required, call.enum, call.sort)
       IN  /\ outcome' = r.err
           /\ field' = r.self
    /\ UNCHANGED <<call, decvars, cntvars>>

\* Integer(primary_key=..., ..., auto_increment=...)
IntegerNew ==
    /\ call.ctor = "Integer"
    /\ outcome = "pending"
    /\ LET r == ColumnInit("int", call.primary_key, call.composite_key,
                           call.index, call.required, call.enum, call.sort)
       IN  /\ outcome' = r.err
           /\ field' = IF r.err = "ok"
                       THEN [r.self EXCEPT !.cls = "Integer",
                                           !.auto_increment = call.auto_increment]
                       ELSE NoField
    /\ UNCHANGED <<call, decvars, cntvars>>

\* DecimalColumn.__init__(self, decimal_places=10, *kwargs): a keyword other
\* than decimal_places is refused by the signature; otherwise kwargs is the
\* tuple of the extra positional arguments and kwargs.pop raises
DecimalColumnInit(c) ==
    IF c.kw
    THEN [err |-> "TypeError: unexpected keyword argument", self |-> NoField]
    ELSE [err |-> "AttributeError: 'tuple' object has no attribute 'pop'",
          self |-> NoField]

\* DecimalColumn(...)
DecimalColumnNew ==
    /\ call.ctor = "DecimalColumn"
    /\ outcome = "pending"
    /\ LET r == DecimalColumnInit(call)
       IN  /\ outcome' = r.err
           /\ field' = r.self
    /\ UNCHANGED <<call, decvars, cntvars>>

(***************************************************************************)
(* Decimal arithmetic                                                      *)
(***************************************************************************)
RECURSIVE Pow10(_)
\* 10 ** n
Pow10(n) == IF n = 0 THEN 1 ELSE 10 * Pow10(n - 1)

RECURSIVE Digits(_)
\* number of decimal digits of the coefficient n (1 for 0)
Digits(n) == IF n < 10 THEN 1 ELSE 1 + Digits(n \div 10)

\* the result of an arithmetic operation, rounded to the context precision
\* (ROUND_HALF_EVEN)
ContextRound(d) ==
    IF Digits(d.coef) <= Prec
    THEN d
    ELSE LET k == Digits(d.coef) - Prec
             q == d.coef \div Pow10(k)
             r == d.coef % Pow10(k)
             half == 5 * Pow10(k - 1)
             up == r > half \/ (r = half /\ q % 2 = 1)
             q2 == IF up THEN q + 1 ELSE q
         IN  IF q2 = Pow10(Prec)
             THEN [neg |-> d.neg, coef |-> Pow10(Prec - 1), exp |-> d.exp + k + 1]
             ELSE [neg |-> d.neg, coef |-> q2, exp |-> d.exp + k]

\* Decimal(n) of an int n: exact
DecimalFromInt(n) ==
    [neg |-> n < 0, coef |-> IF n < 0 THEN -n ELSE n, exp |-> 0]

\* Decimal.__mul__
DecimalMul(a, b) ==
    ContextRound([neg |-> a.neg # b.neg, coef |-> a.coef * b.coef,
                  exp |-> a.exp + b.exp])

\* variant: the quotient is taken one digit too far
DecimalDivPow10Off(a, places) ==
    ContextRound([neg |-> a.neg, coef |-> a.coef, exp |-> a.exp - places - 1])

\* Decimal.__truediv__ by 10 ** places: the quotient has the dividend's
\* coefficient, and is rounded to the context precision
DecimalDivPow10(a, places) ==
    ContextRound([neg |-> a.neg, coef |-> a.coef, exp |-> a.exp - places])

\* variant: the integral part is taken toward minus infinity
DecimalToIntFloor(d) ==
    LET m == IF d.exp >= 0
             THEN d.coef * Pow10(d.exp)
             ELSE d.coef \div Pow10(-d.exp)
        exact == d.exp >= 0 \/ d.coef % Pow10(-d.exp) = 0
    IN  IF d.neg THEN (IF exact THEN -m ELSE -m - 1) ELSE m

\* int(d): the integral part, truncated toward zero
DecimalToInt(d) ==
    LET m == IF d.exp >= 0
             THEN d.coef * Pow10(d.exp)
             ELSE d.coef \div Pow10(-d.exp)
    IN  IF d.neg THEN -m ELSE m

\* the character of one digit
DigitChar(d) == <<"0", "1", "2", "3", "4", "5", "6", "7", "8", "9">>[d + 1]

RECURSIVE NatStr(_)
\* str(n) of an int n >= 0
NatStr(n) ==
    IF n < 10 THEN <<DigitChar(n)>>
    ELSE Append(NatStr(n \div 10), DigitChar(n % 10))

\* str(n) of an int n
IntStr(n) == IF n < 0 THEN <<"-">> \o NatStr(-n) ELSE NatStr(n)

\* the digit a character stands for, or -1
CharDigit(c) ==
    IF c \in {DigitChar(d) : d \in 0..9}
    THEN CHOOSE d \in 0..9 : DigitChar(d) = c
    ELSE -1

RECURSIVE DigitsValue(_)
\* the number a string of digits denotes
DigitsValue(s) ==
    IF s = <<>> THEN 0
    ELSE 10 * DigitsValue(SubSeq(s, 1, Len(s) - 1)) + CharDigit(s[Len(s)])

\* Decimal(s) of a string: an optional sign and digits; ok is FALSE when
\* the string is no number (decimal.InvalidOperation)
DecimalFromStr(s) ==
    LET neg == s # <<>> /\ s[1] = "-"
        body == IF neg THEN Tail(s) ELSE s
        ok == body # <<>> /\ \A i \in DOMAIN body : CharDigit(body[i]) >= 0
    IN  IF ok
        THEN [ok |-> TRUE, neg |-> neg, coef |-> DigitsValue(body), exp |-> 0]
        ELSE [ok |-> FALSE, neg |-> FALSE, coef |-> 0, exp |-> 0]

(***************************************************************************)
(* DecimalColumn.get_redis_value, get_python_value                         *)
(***************************************************************************)
\* Decimal(str(decimal_value)) of a value that is not a Decimal (an int)
CoerceDecimal(value) ==
    IF value.kind # "Decimal"
    THEN LET d == DecimalFromStr(IntStr(IF value.neg THEN -value.coef
                                        ELSE value.coef))
         IN  [neg |-> d.neg, coef |-> d.coef, exp |-> d.exp]
    ELSE [neg |-> value.neg, coef |-> value.coef, exp |-> value.exp]

\* variant: the scaled value is rounded to the nearest int, halves up
ScaledIntRounded(d) ==
    LET m == IF d.exp >= 0
             THEN d.coef * Pow10(d.exp)
             ELSE (d.coef + 5 * Pow10(-d.exp - 1)) \div Pow10(-d.exp)
    IN  IF d.neg THEN -m ELSE m

\* the scaled value is cut to an int
ScaledInt(d) == DecimalToInt(d)

\* get_redis_value(self, decimal_value)
get_redis_value(decimal_places, decimal_value) ==
    IntStr(ScaledInt(DecimalMul(CoerceDecimal(decimal_value),
                                DecimalFromInt(Pow10(decimal_places)))))

\* get_python_value(self, redis_value)
get_python_value(decimal_places, value) ==
    LET d == DecimalFromStr(value)
    IN  IF d.ok
        THEN LET q == DecimalDivPow10(d, decimal_places)
             IN  [ok |-> TRUE, neg |-> q.neg, coef |-> q.coef, exp |-> q.exp]
        ELSE d

\* the values tried: Decimals of up to Prec + 1 digits, and ints
DecimalInputs ==
    [kind : {"Decimal"}, neg : BOOLEAN, coef : 0..(Pow10(Prec + 1) - 1),
     exp : (-MaxFrac)..MaxExp]
    \cup
    [kind : {"int"}, neg : BOOLEAN, coef : 0..(Pow10(Prec + 1) - 1),
     exp : {0}]

\* no value decoded yet
NoDecimal == [ok |-> FALSE, neg |-> FALSE, coef |-> 0, exp |-> 0]

\* the model writes a value: column.get_redis_value(value)
GetRedisValue ==
    /\ dpc = "start"
    /\ redis_value' = get_redis_value(dplaces, dvalue)
    /\ dpc' = "stored"
    /\ UNCHANGED <<dplaces, dvalue, python_value, colvars, cntvars>>

\* the model reads it back: column.get_python_value(redis_value)
GetPythonValue ==
    /\ dpc = "stored"
    /\ python_value' = get_python_value(dplaces, redis_value)
    /\ dpc' = "loaded"
    /\ UNCHANGED <<dplaces, dvalue, redis_value, colvars, cntvars>>

(***************************************************************************)
(* Integer.auto_generate and the counter service db                        *)
(***************************************************************************)
\* the tasks that call auto_generate
Callers == 1..NumCallers

\* the values of model.key_prefix()
Prefixes == {"user"}

\* the names the owning model gave its Integer columns
Names == {"id", "seq"}

\* the exceptions db.incr raises
DbErrors == {"ConnectionError", "ResponseError"}

\* variant: the key lacks the column name
AutoKeyNoName(prefix, name) == "auto:" \o prefix

\* 'auto:{}:{}'.format(model.key_prefix(), self.name)
AutoKey(prefix, name) == "auto:" \o prefix \o ":" \o name

\* variant: a stale result, the value before the increment, is given
AutoGenerateResultStale(value) == IF value > 1 THEN value - 1 ELSE value

\* return await db.incr(...): the value of the response is the result
AutoGenerateResult(value) == value

\* the value the db holds under a key; a key never incremented counts as 0
DbGet(key) == IF key \in DOMAIN counter THEN counter[key] ELSE 0

\* the db with one more increment of a key
DbIncremented(key) ==
    [k \in DOMAIN counter \cup {key} |->
        IF k = key THEN DbGet(key) + 1 ELSE counter[k]]

\* a task that has not called auto_generate
NewTask ==
    [pc |-> "new", id |-> 0, prefix |-> "", name |-> "", key |-> "",
     req |-> "none", value |-> 0, error |-> "none"]

\* auto_generate up to its await: the key is formatted and one incr request
\* is sent to db; the task is suspended
AutoGenerate(c, prefix, name) ==
    /\ task[c].pc # "awaiting"
    /\ issued < budget
    /\ issued' = issued + 1
    /\ task' = [task EXCEPT ![c] =
                   [pc |-> "awaiting", id |-> issued + 1, prefix |-> prefix,
                    name |-> name, key |-> AutoKey(prefix, name),
                    req |-> "sent", value |-> 0, error |-> "none"]]
    /\ requests' = Append(requests,
                          [id |-> issued + 1, key |-> AutoKey(prefix, name)])
    /\ UNCHANGED <<counter, ledger, returned, raised, budget, colvars, decvars>>

\* db serves the request of task c: an atomic increment, answered with the
\* new value
DbIncr(c) ==
    /\ task[c].req = "sent"
    /\ counter' = DbIncremented(task[c].key)
    /\ ledger' = Append(ledger, [id |-> task[c].id, key |-> task[c].key,
                                 value |-> DbGet(task[c].key) + 1])
    /\ task' = [task EXCEPT ![c].req = "done",
                            ![c].value = DbGet(task[c].key) + 1]
    /\ UNCHANGED <<requests, returned, raised, issued, budget, colvars, decvars>>

\* db fails the request of task c with error e, the increment made or not
DbFail(c, e, applied) ==
    /\ task[c].req = "sent"
    /\ IF applied
       THEN /\ counter' = DbIncremented(task[c].key)
            /\ ledger' = Append(ledger, [id |-> task[c].id, key |-> task[c].key,
                                         value |-> DbGet(task[c].key) + 1])
       ELSE UNCHANGED <<counter, ledger>>
    /\ task' = [task EXCEPT ![c].req = "failed", ![c].error = e]
    /\ UNCHANGED <<requests, returned, raised, issued, budget, colvars, decvars>>

\* auto_generate after its await: the response arrived and is returned
AutoGenerateReturn(c) ==
    /\ task[c].pc = "awaiting"
    /\ task[c].req = "done"
    /\ returned' = [returned EXCEPT ![c] =
                       Append(@, [id |-> task[c].id, key |-> task[c].key,
                                  value |-> AutoGenerateResult(task[c].value)])]
    /\ task' = [task EXCEPT ![c].pc = "returned"]
    /\ UNCHANGED <<counter, requests, ledger, raised, issued, budget, colvars, decvars>>

\* auto_generate after its await: the exception of db.incr leaves the
\* coroutine, which has no handler
AutoGenerateRaise(c) ==
    /\ task[c].pc = "awaiting"
    /\ task[c].req = "failed"
    /\ raised' = [raised EXCEPT ![c] =
                     Append(@, [id |-> task[c].id, error |-> task[c].error])]
    /\ task' = [task EXCEPT ![c].pc = "raised"]
    /\ UNCHANGED <<counter, requests, ledger, returned, issued, budget, colvars, decvars>>

\* the awaiting task is cancelled: CancelledError leaves the coroutine; a
\* request not yet served may still be served or not
Cancel(c, applied) ==
    /\ task[c].pc = "awaiting"
    /\ IF task[c].req = "sent" /\ applied
       THEN /\ counter' = DbIncremented(task[c].key)
            /\ ledger' = Append(ledger, [id |-> task[c].id, key |-> task[c].key,
                                         value |-> DbGet(task[c].key) + 1])
       ELSE UNCHANGED <<counter, ledger>>
    /\ raised' = [raised EXCEPT ![c] =
                     Append(@, [id |-> task[c].id, error |-> "CancelledError"])]
    /\ task' = [task EXCEPT ![c].pc = "raised", ![c].req = "cancelled"]
    /\ UNCHANGED <<requests, returned, issued, budget, colvars, decvars>>

(***************************************************************************)
(* Specifications                                                          *)
(***************************************************************************)
\* no constructor call
NoCall ==
    [ctor |-> "none", type |-> "none", primary_key |-> "None",
     composite_key |-> "None", index |-> "None", required |-> "None",
     enum |-> NoEnum, sort |-> "None", auto_increment |-> "None",
     dp_given |-> FALSE, decimal_places |-> 0, extra |-> 0, kw |-> FALSE]

\* no value to encode
NoValue == [kind |-> "none", neg |-> FALSE, coef |-> 0, exp |-> 0]

ColIdle == call = NoCall /\ outcome = "none" /\ field = NoField

DecIdle ==
    /\ dplaces = 0 /\ dvalue = NoValue /\ redis_value = <<>>
    /\ python_value = NoDecimal /\ dpc = "none"

CntIdle ==
    /\ counter = <<>> /\ task = [c \in Callers |-> NewTask]
    /\ requests = <<>> /\ ledger = <<>>
    /\ returned = [c \in Callers |-> <<>>]
    /\ raised = [c \in Callers |-> <<>>]
    /\ issued = 0

\* the owning model makes no call of auto_generate
NoBudget == budget = 0

\* a constructor is about to be called with some arguments
InitColumn ==
    /\ call \in Calls /\ outcome = "pending" /\ field = NoField
    /\ DecIdle /\ CntIdle /\ NoBudget

NextColumn == ColumnNew \/ IntegerNew \/ DecimalColumnNew

SpecColumn == InitColumn /\ [][NextColumn]_vars

\* a column with some decimal_places is about to encode some value
InitDecimal ==
    /\ dplaces \in 0..MaxScale /\ dvalue \in DecimalInputs
    /\ redis_value = <<>> /\ python_value = NoDecimal /\ dpc = "start"
    /\ ColIdle /\ CntIdle /\ NoBudget

NextDecimal == GetRedisValue \/ GetPythonValue

SpecDecimal == InitDecimal /\ [][NextDecimal]_vars

\* the db holds no counter, no task has called auto_generate and the
\* owning model will make MaxCalls calls
InitCounter == ColIdle /\ DecIdle /\ CntIdle /\ budget = MaxCalls

NextCounter ==
    \/ \E c \in Callers, p \in Prefixes, n \in Names : AutoGenerate(c, p, n)
    \/ \E c \in Callers : DbIncr(c)
    \/ \E c \in Callers, e \in DbErrors, a \in BOOLEAN : DbFail(c, e, a)
    \/ \E c \in Callers : AutoGenerateReturn(c)
    \/ \E c \in Callers : AutoGenerateRaise(c)
    \/ \E c \in Callers, a \in BOOLEAN : Cancel(c, a)

SpecCounter == InitCounter /\ [][NextCounter]_vars

\* the same, against a db that serves every request and with no cancellation
NextReliable ==
    \/ \E c \in Callers, p \in Prefixes, n \in Names : AutoGenerate(c, p, n)
    \/ \E c \in Callers : DbIncr(c)
    \/ \E c \in Callers : AutoGenerateReturn(c)

InitReliable == ColIdle /\ DecIdle /\ CntIdle /\ budget = MaxServedCalls

SpecReliable == InitReliable /\ [][NextReliable]_vars

(***************************************************************************)
(* Properties of construction (SpecColumn)                                 *)
(***************************************************************************)
\* the call was a base construction (Column, or Integer through super) and
\* has finished
BaseDone == call.ctor \in {"Column", "Integer"} /\ outcome # "pending"

\* both key roles were asked for, by truthiness
BothKeysTruthy ==
    /\ call.primary_key \in {"True", "1"}
    /\ call.composite_key \in {"True", "1"}

\* C1: constructing a DecimalColumn with decimal_places >= 0 or omitted and
\* flags that do not conflict succeeds, with field_type Decimal, the given
\* decimal_places (10 when omitted) and the flags of the base construction.
C1_DecimalColumnConstructs ==
    (call.ctor = "DecimalColumn" /\ outcome # "pending" /\ ~BothKeysTruthy)
    => /\ outcome = "ok"
       /\ field.field_type = "Decimal"
       /\ field.decimal_places = IF call.dp_given THEN call.decimal_places
                                 ELSE DefaultDecimalPlaces
       /\ field.primary = (call.primary_key = "True")
       /\ field.composite = (call.composite_key = "True")
       /\ field.indexed = (call.index = "True" \/ call.composite_key = "True")
       /\ field.required = (call.required = "True" \/ call.primary_key = "True"
                            \/ call.composite_key = "True")

\* C2: construction succeeds for each of the types str, int, Decimal (flags
\* not conflicting, no enum); for any other type it fails with the bad field
\* type error and yields no object, whatever the key flags and enum are.
C2_TypeCheck ==
    BaseDone
    => /\ call.type \notin {"str", "int", "Decimal"}
          => outcome = "Bad Field Type" /\ field = NoField
       /\ (call.type \in {"str", "int", "Decimal"} /\ ~BothKeysTruthy
           /\ call.enum = NoEnum)
          => outcome = "ok" /\ field # NoField /\ field.field_type = call.type

\* C2 witness: an unsupported type given together with conflicting keys and a
\* restriction that is no Enum class is refused for its type
C2_Witness ==
    /\ BaseDone /\ call.type = "float" /\ BothKeysTruthy
    /\ call.enum.kind = "list" /\ call.enum.truthy
    /\ outcome = "Bad Field Type"

\* C3 as stated: whenever primary_key and composite_key are both truthy the
\* construction fails with the key conflict error and yields no object; no
\* object is both primary and composite.
C3_Original ==
    /\ (BaseDone /\ BothKeysTruthy)
       => outcome = "primary_key or composite_key, but not both"
          /\ field = NoField
    /\ ~(field.primary /\ field.composite)

\* C3 amended: whenever primary_key and composite_key are both truthy and the
\* type is a supported one, the construction fails with the key conflict
\* error and yields no object; no object is both primary and composite.
C3_KeyConflict ==
    /\ (BaseDone /\ BothKeysTruthy /\ call.type \in {"str", "int", "Decimal"})
       => outcome = "primary_key or composite_key, but not both"
          /\ field = NoField
    /\ ~(field.primary /\ field.composite)

\* C3 witness: truthy values that are not both True are refused too
C3_Witness ==
    /\ BaseDone /\ call.primary_key = "1" /\ call.composite_key = "True"
    /\ call.type = "str"
    /\ outcome = "primary_key or composite_key, but not both"

\* C4: a constructed field is indexed exactly when index is True or it is
\* composite, and required exactly when required is True or it is primary or
\* composite; composite_key=True forces both, primary_key=True forces
\* required, whatever index and required say.
C4_DerivedFlags ==
    (BaseDone /\ outcome = "ok")
    => /\ field.primary = (call.primary_key = "True")
       /\ field.composite = (call.composite_key = "True")
       /\ field.indexed = (call.index = "True" \/ field.composite)
       /\ field.required = (call.required = "True" \/ field.primary
                            \/ field.composite)
       /\ call.composite_key = "True" => field.indexed /\ field.required
       /\ call.primary_key = "True" => field.required

\* C4 witness: a composite field built with index=False and required=False
C4_Witness ==
    /\ BaseDone /\ outcome = "ok" /\ call.composite_key = "True"
    /\ call.index = "False" /\ call.required = "False"
    /\ field.indexed /\ field.required

\* C5: with a valid type and no key conflict, a restriction that is not an
\* Enum class (an empty list and 0 included) fails the construction with the
\* enum error; an Enum class gives enum_choices the set of its members'
\* values; no restriction gives the empty set.
C5_EnumRestriction ==
    (BaseDone /\ call.type \in {"str", "int", "Decimal"} /\ ~BothKeysTruthy)
    => /\ call.enum.kind \notin {"None", "EnumMeta"}
          => outcome = "is not an instance of EnumMeta" /\ field = NoField
       /\ call.enum.kind = "EnumMeta"
          => /\ outcome = "ok"
             /\ field.enum_choices =
                    {call.enum.members[i] : i \in DOMAIN call.enum.members}
       /\ call.enum.kind = "None"
          => outcome = "ok" /\ field.enum_choices = {}

(***************************************************************************)
(* Properties of the store encoding (SpecDecimal)                          *)
(***************************************************************************)
\* the number the encoded value denotes
V == [neg |-> dvalue.neg, coef |-> dvalue.coef, exp |-> dvalue.exp]

RECURSIVE Canonical(_)
\* a decimal without trailing zeros in its coefficient; zero is +0E0
Canonical(d) ==
    IF d.coef = 0 THEN [neg |-> FALSE, coef |-> 0, exp |-> 0]
    ELSE IF d.coef % 10 = 0
         THEN Canonical([neg |-> d.neg, coef |-> d.coef \div 10,
                         exp |-> d.exp + 1])
         ELSE [neg |-> d.neg, coef |-> d.coef, exp |-> d.exp]

\* a and b denote the same number (Decimal.__eq__)
SameNumber(a, b) ==
    Canonical([neg |-> a.neg, coef |-> a.coef, exp |-> a.exp])
    = Canonical([neg |-> b.neg, coef |-> b.coef, exp |-> b.exp])

\* count of significant digits of d
SigDigits(d) == Digits(Canonical(d).coef)

\* count of fractional digits of d
FracDigits(d) == IF Canonical(d).exp < 0 THEN -Canonical(d).exp ELSE 0

\* d within the precision of the arithmetic
WithinPrecision(d) == SigDigits(d) <= Prec

\* the integer d * 10^s with its fractional part discarded
TruncatedScaled(d, s) ==
    LET m == IF d.exp + s >= 0
             THEN d.coef * Pow10(d.exp + s)
             ELSE d.coef \div Pow10(-(d.exp + s))
    IN  IF d.neg THEN -m ELSE m

\* d cut to s fractional digits
TruncatedTo(d, s) ==
    IF d.exp >= -s THEN d
    ELSE [neg |-> d.neg, coef |-> d.coef \div Pow10(-s - d.exp), exp |-> -s]

\* d rounded to s fractional digits, a half going up when halfUp and to the
\* even digit otherwise
RoundedTo(d, s, halfUp) ==
    IF d.exp >= -s THEN d
    ELSE LET k == -s - d.exp
             q == d.coef \div Pow10(k)
             r == d.coef % Pow10(k)
             half == 5 * Pow10(k - 1)
             up == r > half \/ (r = half /\ (halfUp \/ q % 2 = 1))
         IN  [neg |-> d.neg, coef |-> IF up THEN q + 1 ELSE q, exp |-> -s]

\* the digit each character denotes
DigitOf ==
    [c \in {"0", "1", "2", "3", "4", "5", "6", "7", "8", "9"} |->
        CASE c = "0" -> 0 [] c = "1" -> 1 [] c = "2" -> 2 [] c = "3" -> 3
          [] c = "4" -> 4 [] c = "5" -> 5 [] c = "6" -> 6 [] c = "7" -> 7
          [] c = "8" -> 8 [] c = "9" -> 9]

\* a plain integer string: an optional minus sign, then digits only, with no
\* leading zero and no minus zero
PlainInteger(str) ==
    LET body == IF str # <<>> /\ str[1] = "-" THEN Tail(str) ELSE str
    IN  /\ body # <<>>
        /\ \A i \in DOMAIN body : body[i] \in DOMAIN DigitOf
        /\ Len(body) > 1 => body[1] # "0"
        /\ body = <<"0">> => str = body

RECURSIVE NumeralValue(_)
\* the number a string of digits denotes
NumeralValue(body) ==
    IF body = <<>> THEN 0
    ELSE 10 * NumeralValue(SubSeq(body, 1, Len(body) - 1))
         + DigitOf[body[Len(body)]]

\* the integer a plain integer string denotes
PlainIntegerValue(str) ==
    IF str[1] = "-" THEN -NumeralValue(Tail(str)) ELSE NumeralValue(str)

Of(log, id) == { i \in DOMAIN log : log[i].id = id }

\* C9: each call of auto_generate sends exactly one incr request, on the key
\* "auto:" + key_prefix + ":" + name, and returns the counter's value after
\* that increment; when the request fails or the call is cancelled no further
\* request is sent, nothing is returned and the same failure reaches the
\* caller.
C9_OneRequestPerCall ==
    \A c \in Callers :
        /\ task[c].pc # "new"
           => /\ Cardinality(Of(requests, task[c].id)) = 1
              /\ \A i \in Of(requests, task[c].id) :
                    requests[i].key
                        = "auto:" \o task[c].prefix \o ":" \o task[c].name
              /\ task[c].name = "id" => task[c].key = "auto:user:id"
              /\ task[c].name = "seq" => task[c].key = "auto:user:seq"
        /\ \A i \in DOMAIN returned[c] :
              /\ Cardinality(Of(requests, returned[c][i].id)) = 1
              /\ Cardinality(Of(ledger, returned[c][i].id)) = 1
              /\ \A j \in Of(ledger, returned[c][i].id) :
                    /\ ledger[j].key = returned[c][i].key
                    /\ ledger[j].value = returned[c][i].value
                    /\ ledger[j].value
                           = Cardinality({k \in 1..j :
                                            ledger[k].key = ledger[j].key})
              /\ Of(raised[c], returned[c][i].id) = {}
        /\ \A i \in DOMAIN raised[c] :
              /\ Cardinality(Of(requests, raised[c][i].id)) = 1
              /\ Of(returned[c], raised[c][i].id) = {}
              /\ raised[c][i].error \in DbErrors \cup {"CancelledError"}
        /\ (task[c].pc = "raised" /\ task[c].req = "failed")
           => raised[c][Len(raised[c])] = [id |-> task[c].id,
                                           error |-> task[c].error]
        /\ (task[c].pc = "raised" /\ task[c].req = "cancelled")
           => raised[c][Len(raised[c])] = [id |-> task[c].id,
                                           error |-> "CancelledError"]

\* C9 witness: one caller has had a call fail with the db's error after the
\* increment was made, and a later call return the next value
C9_Witness ==
    \E c \in Callers :
        /\ Len(raised[c]) = 1 /\ raised[c][1].error = "ConnectionError"
        /\ Of(ledger, raised[c][1].id) # {}
        /\ Len(returned[c]) = 1 /\ returned[c][1].id > raised[c][1].id
        /\ returned[c][1].key = "auto:user:id"
        /\ returned[c][1].value = 2

\* C10: against a db that serves every request atomically, from 0, the values
\* returned on one key are pairwise distinct, each is the value made by the
\* call's own request, the values one caller gets on a key increase, and
\* once every call has completed the n values returned on a key are 1..n.
C10_DistinctSequential ==
    /\ \A c \in Callers : \A i \in DOMAIN returned[c] :
          \A j \in Of(ledger, returned[c][i].id) :
              /\ ledger[j].key = returned[c][i].key
              /\ ledger[j].value = returned[c][i].value
    /\ \A c \in Callers : \A i \in DOMAIN returned[c] :
          Cardinality(Of(ledger, returned[c][i].id)) = 1
    /\ \A c, d \in Callers :
          \A i \in DOMAIN returned[c], j \in DOMAIN returned[d] :
              (returned[c][i].key = returned[d][j].key /\ (c # d \/ i # j))
              => returned[c][i].value # returned[d][j].value
    /\ \A c \in Callers : \A i, j \in DOMAIN returned[c] :
          (i < j /\ returned[c][i].key = returned[c][j].key)
          => returned[c][i].value < returned[c][j].value
    /\ (\A c \in Callers : task[c].pc # "awaiting")
       => \A key \in {"auto:user:id", "auto:user:seq"} :
             LET vals == UNION { { returned[c][i].value :
                                     i \in { x \in DOMAIN returned[c] :
                                               returned[c][x].key = key } } :
                                 c \in Callers }
                 n == Cardinality({ r \in DOMAIN requests :
                                      requests[r].key = key })
             IN  vals = 1..n

\* C10 witness: two callers were served on one key in the order opposite to
\* that of their requests, all calls have completed, and one caller got two
\* values
C10_Witness ==
    /\ \A c \in Callers : task[c].pc = "returned"
    /\ issued = 3
    /\ \A i \in DOMAIN requests : requests[i].key = "auto:user:id"
    /\ \E i, j \in DOMAIN ledger : i < j /\ ledger[i].id > ledger[j].id
    /\ \E c \in Callers : Len(returned[c]) = 2

\* C10 witness of the sequential case: one caller made three calls in a row
\* on one key and got 1, 2, 3
Sequential123 ==
    \E c \in Callers :
        /\ Len(returned[c]) = 3
        /\ \A i \in 1..3 : returned[c][i] = [id |-> i, key |-> "auto:user:id",
                                             value |-> i]

====
